---- MODULE Spec2Model ----
(***************************************************************************)
(* Model of src/erp.py: the Streamlit ERP application (users, attendance,  *)
(* service tickets) over its SQLite database.                              *)
(*                                                                         *)
(* Every browser session runs the script top to bottom on each widget      *)
(* event.  A page handler first queries the database and then, when the    *)
(* clicked button is rendered in this run, writes and commits.  The query  *)
(* and the commit are separate database statements of separate sessions    *)
(* (SessionLocal() per run, no locking, no version column), so handlers of *)
(* different browser sessions interleave between the two.  Each handler is *)
(* therefore given twice: as one atomic action (the whole run) and as a    *)
(* query step followed by a commit step.                                   *)
(***************************************************************************)
EXTENDS Integers, Sequences, FiniteSets, TLC

VARIABLES
    users,       \* table users: row i has user_id = i
    attendance,  \* table attendance: row i has attendance_id = i
    tickets,     \* table service_tickets: row i has ticket_id = i
    session,     \* st.session_state of each browser session
    run,         \* where each browser session's current script run stands
    clock,       \* the wall clock (date.today(), datetime.now())
    last         \* the latest click a two-step run or a listing page handled, and its outcome

vars == <<users, attendance, tickets, session, run, clock, last>>

---------------------------------------------------------------------------
(* Bounds *)

NumSessions == 2
MaxUsers == 6
MaxAccounts == 3
MaxAttendance == 2
MaxTickets == 1
MaxClock == 2
DayLen == 2

Sessions == 1..NumSessions

\* NULL of a nullable column, None of a Python lookup; ids, dates and times
\* of day all start at 1.
Null == 0

Roles == {"admin", "manager", "staff", "client"}
Emails == {"admin@example.com", "m@example.com", "s1@example.com",
           "s2@example.com", "c@example.com", "x@example.com"}
Passwords == {"adminpassword", "pw"}

\* date.today() and datetime.now().time()
Today == (clock \div DayLen) + 1
TimeOfDay == (clock % DayLen) + 1

\* datetime.utcnow(), the default and onupdate value of the ticket timestamps
utcnow == clock

---------------------------------------------------------------------------
(* Helper functions *)

hash_password(password) == <<"bcrypt", password>>

verify_password(password, hashed) == hashed = <<"bcrypt", password>>

\* .first() of the query by email: the user_id, or Null
get_user_by_email(email) ==
    IF \E i \in 1..Len(users) : users[i].email = email
    THEN CHOOSE i \in 1..Len(users) :
            /\ users[i].email = email
            /\ \A j \in 1..(i - 1) : users[j].email # email
    ELSE Null

\* Mutant: users.email without its unique index.
create_user_no_unique_index(us, user_data) ==
    Append(us, [email |-> user_data.email,
                role |-> user_data.role,
                password_hash |-> <<"bcrypt", user_data.password>>])

\* db.add + db.commit of a new users row; the unique index on users.email
\* makes the commit raise (no row added) when the email is present.
create_user(us, user_data) ==
    IF \E i \in 1..Len(us) : us[i].email = user_data.email
    THEN us
    ELSE Append(us, [email |-> user_data.email,
                     role |-> user_data.role,
                     password_hash |-> hash_password(user_data.password)])

\* Mutant: the password is not verified.
authenticate_user_no_password_check(email, password) == get_user_by_email(email)

authenticate_user(email, password) ==
    LET user == get_user_by_email(email)
    IN  IF user # Null /\ verify_password(password, users[user].password_hash)
        THEN user
        ELSE Null

---------------------------------------------------------------------------
(* Session state *)

NoUser == [user_id |-> Null, role |-> "none"]
LoggedOut == [logged_in |-> FALSE, user |-> NoUser]
NoUserData == [email |-> "", role |-> "none", password |-> ""]
Idle == [at |-> "idle", date |-> Null, rec |-> Null, ticket |-> Null, staff |-> Null,
         user_data |-> NoUserData]

\* The outcome of a click: "dropped" when its button is not rendered in the
\* run (st.button returns False and nothing is written), "clicked" when the
\* run reaches the write, "committed" after db.commit(), "raised" when the
\* commit raises; for a report or a listing, the rows the run wrote to the
\* page, as row ids, and the dates asked for.
NoOutcome == [session |-> Null, click |-> "none", ticket |-> Null, result |-> "none",
              start_date |-> Null, end_date |-> Null, records |-> <<>>]
Outcome(s, click, t, result) ==
    [NoOutcome EXCEPT !.session = s, !.click = click, !.ticket = t,
                      !.result = result]

\* Mutant: the attendance page is offered to clients as well.
MenuOptions_attendance_for_clients(role) ==
    CASE role = "admin" ->
            {"Dashboard", "Register User", "Attendance Report", "Manage Service Tickets"}
      [] role = "manager" ->
            {"Dashboard", "Attendance Report", "Manage Service Tickets"}
      [] role = "staff" ->
            {"Dashboard", "Mark Attendance", "My Assigned Tickets"}
      [] role = "client" ->
            {"Dashboard", "Raise Service Request", "My Service Tickets", "Mark Attendance"}
      [] OTHER -> {}

\* The sidebar menu dashboard() offers to each role.
MenuOptions(role) ==
    CASE role = "admin" ->
            {"Dashboard", "Register User", "Attendance Report", "Manage Service Tickets"}
      [] role = "manager" ->
            {"Dashboard", "Attendance Report", "Manage Service Tickets"}
      [] role = "staff" ->
            {"Dashboard", "Mark Attendance", "My Assigned Tickets"}
      [] role = "client" ->
            {"Dashboard", "Raise Service Request", "My Service Tickets"}
      [] OTHER -> {}

\* main() and dashboard(): the page `menu` is run for session s
dashboard(s, menu) ==
    /\ session[s].logged_in
    /\ menu \in MenuOptions(session[s].user.role)

login_page(s, email, password) ==
    /\ ~session[s].logged_in
    /\ run[s] = Idle
    /\ LET user == authenticate_user(email, password)
       IN  session' = IF user # Null
                      THEN [session EXCEPT ![s] =
                              [logged_in |-> TRUE,
                               user |-> [user_id |-> user, role |-> users[user].role]]]
                      ELSE session
    /\ UNCHANGED <<users, attendance, tickets, run, clock, last>>

\* Mutant: logout leaves the user in the session state.
logout_keep_user(s) ==
    /\ session[s].logged_in
    /\ run[s] = Idle
    /\ session' = [session EXCEPT ![s].logged_in = FALSE]
    /\ UNCHANGED <<users, attendance, tickets, run, clock, last>>

logout(s) ==
    /\ session[s].logged_in
    /\ run[s] = Idle
    /\ session' = [session EXCEPT ![s] = LoggedOut]
    /\ UNCHANGED <<users, attendance, tickets, run, clock, last>>

---------------------------------------------------------------------------
(* Admin: register new user; the admin bootstrap script *)

register_user(s, email, role, password, confirm_password) ==
    /\ dashboard(s, "Register User")
    /\ run[s] = Idle
    /\ users' = IF password # confirm_password THEN users
                ELSE IF get_user_by_email(email) # Null THEN users
                ELSE create_user(users, [email |-> email, role |-> role,
                                         password |-> password])
    /\ UNCHANGED <<attendance, tickets, session, run, clock, last>>

\* The same run in two steps: the checks of the form and the lookup by email
\* (lines 165-169) ...
register_user_query(s, email, role, password, confirm_password) ==
    /\ dashboard(s, "Register User")
    /\ run[s] = Idle
    /\ LET create == password = confirm_password /\ get_user_by_email(email) = Null
       IN  /\ run' = [run EXCEPT ![s] =
                 IF create
                 THEN [Idle EXCEPT !.at = "register",
                                   !.user_data = [email |-> email, role |-> role,
                                                  password |-> password]]
                 ELSE Idle]
           /\ last' = Outcome(s, "Register", Null,
                              IF create THEN "clicked" ELSE "dropped")
    /\ UNCHANGED <<users, attendance, tickets, session, clock>>

\* ... and create_user (line 185): the commit raises IntegrityError when the
\* email was registered meanwhile.
register_user_commit(s) ==
    /\ run[s].at = "register"
    /\ users' = create_user(users, run[s].user_data)
    /\ run' = [run EXCEPT ![s] = Idle]
    /\ last' = Outcome(s, "Register", Null,
                       IF users' = users THEN "raised" ELSE "committed")
    /\ UNCHANGED <<attendance, tickets, session, clock>>

AdminUserData ==
    [email |-> "admin@example.com", role |-> "admin", password |-> "adminpassword"]

bootstrap ==
    /\ users' = create_user(users, AdminUserData)
    /\ UNCHANGED <<attendance, tickets, session, run, clock, last>>

---------------------------------------------------------------------------
(* The clock *)

Tick ==
    /\ clock < MaxClock
    /\ clock' = clock + 1
    /\ UNCHANGED <<users, attendance, tickets, session, run, last>>

---------------------------------------------------------------------------
(* Staff: attendance module *)

\* Mutant: the lookup by user alone, whatever the date.
attendance_record_any_date(user_id, today) ==
    IF \E i \in 1..Len(attendance) : attendance[i].user_id = user_id
    THEN CHOOSE i \in 1..Len(attendance) :
            /\ attendance[i].user_id = user_id
            /\ \A j \in 1..(i - 1) : attendance[j].user_id # user_id
    ELSE Null

\* db.query(Attendance).filter(user_id == .., date == ..).first():
\* the attendance_id of the first matching row, or Null
attendance_record(user_id, today) ==
    IF \E i \in 1..Len(attendance) :
            attendance[i].user_id = user_id /\ attendance[i].date = today
    THEN CHOOSE i \in 1..Len(attendance) :
            /\ attendance[i].user_id = user_id /\ attendance[i].date = today
            /\ \A j \in 1..(i - 1) :
                  ~(attendance[j].user_id = user_id /\ attendance[j].date = today)
    ELSE Null

\* Mutant: the Check In button is rendered whatever the lookup returned.
staff_attendance_branch_no_lookup(rec, click) ==
    IF click = "Check In" THEN "checkin"
    ELSE IF rec # Null /\ attendance[rec].check_out = Null THEN "checkout"
    ELSE "idle"

\* Mutant: the Check Out button is rendered for a closed record as well.
staff_attendance_branch_reopen(rec, click) ==
    IF rec = Null
    THEN IF click = "Check In" THEN "checkin" ELSE "idle"
    ELSE IF click = "Check Out" THEN "checkout" ELSE "idle"

\* The write the run reaches, from the looked-up record and the clicked
\* button: a button that is not rendered in this run returns False.
staff_attendance_branch(rec, click) ==
    IF rec = Null
    THEN IF click = "Check In" THEN "checkin" ELSE "idle"
    ELSE IF attendance[rec].check_out = Null
         THEN IF click = "Check Out" THEN "checkout" ELSE "idle"
         ELSE "idle"

new_attendance(user_id, today, now) ==
    [user_id |-> user_id, date |-> today, check_in |-> now, check_out |-> Null]

\* Mutant: the check-out rewrites check_in as well.
check_out_record_and_check_in(att, rec, now) ==
    [att EXCEPT ![rec].check_out = now, ![rec].check_in = now]

\* attendance_record.check_out = datetime.now().time(); db.commit()
check_out_record(att, rec, now) == [att EXCEPT ![rec].check_out = now]

AttendanceClicks == {"Check In", "Check Out"}

\* One whole run of staff_attendance().
staff_attendance(s, click) ==
    /\ dashboard(s, "Mark Attendance")
    /\ run[s] = Idle
    /\ LET user_id == session[s].user.user_id
           rec == attendance_record(user_id, Today)
           branch == staff_attendance_branch(rec, click)
       IN  /\ branch = "checkin" => Len(attendance) < MaxAttendance
           /\ attendance' =
                CASE branch = "checkin" ->
                        Append(attendance, new_attendance(user_id, Today, TimeOfDay))
                  [] branch = "checkout" ->
                        check_out_record(attendance, rec, TimeOfDay)
                  [] OTHER -> attendance
    /\ UNCHANGED <<users, tickets, session, run, clock, last>>

\* The same run in two steps: the lookup (lines 195-198) ...
staff_attendance_query(s, click) ==
    /\ dashboard(s, "Mark Attendance")
    /\ run[s] = Idle
    /\ LET user_id == session[s].user.user_id
           rec == attendance_record(user_id, Today)
           branch == staff_attendance_branch(rec, click)
       IN  /\ branch = "checkin" =>
                Len(attendance) + Cardinality({r \in Sessions : run[r].at = "checkin"})
                    < MaxAttendance
           /\ run' = [run EXCEPT ![s] =
                CASE branch = "checkin" -> [Idle EXCEPT !.at = "checkin", !.date = Today]
                  [] branch = "checkout" -> [Idle EXCEPT !.at = "checkout", !.rec = rec]
                  [] OTHER -> Idle]
           /\ last' = Outcome(s, click, Null,
                              IF branch = "idle" THEN "dropped" ELSE "clicked")
    /\ UNCHANGED <<users, attendance, tickets, session, clock>>

\* ... and the write with its commit (lines 202-208, 215-216).
staff_attendance_commit(s) ==
    /\ run[s].at \in {"checkin", "checkout"}
    /\ attendance' =
         IF run[s].at = "checkin"
         THEN Append(attendance,
                     new_attendance(session[s].user.user_id, run[s].date, TimeOfDay))
         ELSE check_out_record(attendance, run[s].rec, TimeOfDay)
    /\ run' = [run EXCEPT ![s] = Idle]
    /\ last' = Outcome(s, IF run[s].at = "checkin" THEN "Check In" ELSE "Check Out",
                       Null, "committed")
    /\ UNCHANGED <<users, tickets, session, clock>>

---------------------------------------------------------------------------
(* Client: service request module *)

\* The options of the Service Type selectbox
ServiceTypes == {"Housekeeping", "Pantry", "Car Driver", "Data Entry",
                 "Electrician", "Plumber", "Gardener"}

\* What the Description text area can hold: it starts empty.
Descriptions == {"", "leaking tap"}

new_ticket(client_id, service_type, description) ==
    [client_id |-> client_id, service_type |-> service_type,
     description |-> description, assigned_to |-> Null, status |-> "Pending",
     created_at |-> utcnow, updated_at |-> utcnow]

client_service_request(s, service_type, description) ==
    /\ dashboard(s, "Raise Service Request")
    /\ run[s] = Idle
    /\ Len(tickets) < MaxTickets
    /\ tickets' = Append(tickets,
                         new_ticket(session[s].user.user_id, service_type,
                                    description))
    /\ UNCHANGED <<users, attendance, session, run, clock, last>>

\* One run of client_view_tickets(): the tickets of the client, as
\* ticket ids in the order of the query.
client_view_tickets(s) ==
    /\ dashboard(s, "My Service Tickets")
    /\ run[s] = Idle
    /\ LET mine(t) == tickets[t].client_id = session[s].user.user_id
           listed == SelectSeq([t \in 1..Len(tickets) |-> t], mine)
       IN  last' = [Outcome(s, "My Service Tickets", Null,
                           IF listed # <<>> THEN "tickets" ELSE "no tickets")
                       EXCEPT !.records = listed]
    /\ UNCHANGED <<users, attendance, tickets, session, run, clock>>

---------------------------------------------------------------------------
(* Manager: service ticket management *)

\* db.query(User).filter(User.role == "staff").all(), as user ids
staff_list == {i \in 1..Len(users) : users[i].role = "staff"}

\* What the selectbox can return: one of the staff options, or None when
\* there is no option (staff_options[None] then raises KeyError).
staff_selection == IF staff_list = {} THEN {Null} ELSE staff_list

\* Mutant: the assign button is rendered whatever the ticket's status.
manager_branch_any_status(t, selected_staff) ==
    IF selected_staff \in staff_list THEN "assign" ELSE "idle"

\* Mutant: the write is reached whatever the selectbox returned.
manager_branch_no_staff_check(t, selected_staff) ==
    IF tickets[t].status = "Pending" THEN "assign" ELSE "idle"

\* The assign button of ticket t is rendered only while the ticket read by
\* this run is Pending; staff_options[selected_staff] raises KeyError, before
\* anything is assigned, unless the selection is one of the staff options.
manager_branch(t, selected_staff) ==
    IF tickets[t].status = "Pending"
    THEN IF selected_staff \in staff_list THEN "assign" ELSE "idle"
    ELSE "idle"

\* Mutant: the assignment sets the status and forgets assigned_to.
assign_ticket_status_only(tk, t, selected_staff) ==
    [tk EXCEPT ![t].status = "In Progress", ![t].updated_at = utcnow]

\* ticket.assigned_to = ..; ticket.status = "In Progress"; db.commit()
assign_ticket(tk, t, selected_staff) ==
    [tk EXCEPT ![t].assigned_to = selected_staff,
               ![t].status = "In Progress",
               ![t].updated_at = utcnow]

\* One whole run of manager_service_tickets() with the assign button of
\* ticket t clicked.
manager_service_tickets(s, t, selected_staff) ==
    /\ dashboard(s, "Manage Service Tickets")
    /\ run[s] = Idle
    /\ t \in 1..Len(tickets)
    /\ selected_staff \in staff_selection
    /\ tickets' = IF manager_branch(t, selected_staff) = "assign"
                  THEN assign_ticket(tickets, t, selected_staff)
                  ELSE tickets
    /\ UNCHANGED <<users, attendance, session, run, clock, last>>

manager_service_tickets_query(s, t, selected_staff) ==
    /\ dashboard(s, "Manage Service Tickets")
    /\ run[s] = Idle
    /\ t \in 1..Len(tickets)
    /\ selected_staff \in staff_selection
    /\ run' = [run EXCEPT ![s] =
                 IF manager_branch(t, selected_staff) = "assign"
                 THEN [Idle EXCEPT !.at = "assign", !.ticket = t,
                                   !.staff = selected_staff]
                 ELSE Idle]
    /\ last' = Outcome(s, "Assign Ticket", t,
                       IF manager_branch(t, selected_staff) = "assign"
                       THEN "clicked" ELSE "dropped")
    /\ UNCHANGED <<users, attendance, tickets, session, clock>>

manager_service_tickets_commit(s) ==
    /\ run[s].at = "assign"
    /\ tickets' = assign_ticket(tickets, run[s].ticket, run[s].staff)
    /\ run' = [run EXCEPT ![s] = Idle]
    /\ last' = Outcome(s, "Assign Ticket", run[s].ticket, "committed")
    /\ UNCHANGED <<users, attendance, session, clock>>

---------------------------------------------------------------------------
(* Staff: view and update assigned tickets *)

\* The complete button of ticket t is rendered for the tickets the query
\* assigned_to == user_id returns, unless the ticket read is Completed.
staff_branch(user_id, t) ==
    IF tickets[t].assigned_to = user_id /\ tickets[t].status # "Completed"
    THEN "complete"
    ELSE "idle"

\* ticket.status = "Completed"; db.commit()
complete_ticket(tk, t) ==
    [tk EXCEPT ![t].status = "Completed", ![t].updated_at = utcnow]

staff_assigned_tickets(s, t) ==
    /\ dashboard(s, "My Assigned Tickets")
    /\ run[s] = Idle
    /\ t \in 1..Len(tickets)
    /\ tickets' = IF staff_branch(session[s].user.user_id, t) = "complete"
                  THEN complete_ticket(tickets, t)
                  ELSE tickets
    /\ UNCHANGED <<users, attendance, session, run, clock, last>>

staff_assigned_tickets_query(s, t) ==
    /\ dashboard(s, "My Assigned Tickets")
    /\ run[s] = Idle
    /\ t \in 1..Len(tickets)
    /\ run' = [run EXCEPT ![s] =
                 IF staff_branch(session[s].user.user_id, t) = "complete"
                 THEN [Idle EXCEPT !.at = "complete", !.ticket = t]
                 ELSE Idle]
    /\ last' = Outcome(s, "Mark Ticket as Completed", t,
                       IF staff_branch(session[s].user.user_id, t) = "complete"
                       THEN "clicked" ELSE "dropped")
    /\ UNCHANGED <<users, attendance, tickets, session, clock>>

staff_assigned_tickets_commit(s) ==
    /\ run[s].at = "complete"
    /\ tickets' = complete_ticket(tickets, run[s].ticket)
    /\ run' = [run EXCEPT ![s] = Idle]
    /\ last' = Outcome(s, "Mark Ticket as Completed", run[s].ticket, "committed")
    /\ UNCHANGED <<users, attendance, session, clock>>

---------------------------------------------------------------------------
(* Admin/Manager: attendance report *)

\* The dates the two date inputs are set to
Dates == 1..(MaxClock \div DayLen + 1)

\* Mutant: the range without its two end dates.
between_exclusive(d, start_date, end_date) == start_date < d /\ d < end_date

\* Attendance.date.between(start_date, end_date): SQL BETWEEN
between(d, start_date, end_date) == start_date <= d /\ d <= end_date

\* db.query(Attendance).filter(...).all(): the query has no ORDER BY, and
\* SQLite scans the table in rowid order, so the matching rows come in the
\* order of their attendance_id.
records(start_date, end_date) ==
    LET selected(i) == between(attendance[i].date, start_date, end_date)
    IN  SelectSeq([i \in 1..Len(attendance) |-> i], selected)

attendance_report(s, start_date, end_date) ==
    /\ dashboard(s, "Attendance Report")
    /\ run[s] = Idle
    /\ last' = [Outcome(s, "Generate Report", Null,
                        IF records(start_date, end_date) # <<>>
                        THEN "records" ELSE "no records")
                    EXCEPT !.start_date = start_date, !.end_date = end_date,
                           !.records = records(start_date, end_date)]
    /\ UNCHANGED <<users, attendance, tickets, session, run, clock>>

---------------------------------------------------------------------------
(* Initial states *)

\* The database after Base.metadata.create_all: no rows.
InitFresh ==
    /\ users = <<>>
    /\ attendance = <<>>
    /\ tickets = <<>>
    /\ session = [s \in Sessions |-> LoggedOut]
    /\ run = [s \in Sessions |-> Idle]
    /\ clock = 0
    /\ last = NoOutcome

\* The users table after the bootstrap script and four registrations by the
\* admin: a manager, two staff members and a client.
DeployedUsers ==
    LET reg(us, email, role) ==
            create_user(us, [email |-> email, role |-> role, password |-> "pw"])
    IN  reg(reg(reg(reg(create_user(<<>>, AdminUserData),
                        "m@example.com", "manager"),
                    "s1@example.com", "staff"),
                "s2@example.com", "staff"),
            "c@example.com", "client")

\* The users table after the bootstrap script and the registration of one
\* client: no staff member yet.
UsersWithoutStaff ==
    create_user(create_user(<<>>, AdminUserData),
                [email |-> "c@example.com", role |-> "client", password |-> "pw"])

InitWithoutStaff ==
    /\ users = UsersWithoutStaff
    /\ attendance = <<>>
    /\ tickets = <<>>
    /\ session = [s \in Sessions |-> LoggedOut]
    /\ run = [s \in Sessions |-> Idle]
    /\ clock = 0
    /\ last = NoOutcome

Init ==
    /\ users = DeployedUsers
    /\ attendance = <<>>
    /\ tickets = <<>>
    /\ session = [s \in Sessions |-> LoggedOut]
    /\ run = [s \in Sessions |-> Idle]
    /\ clock = 0
    /\ last = NoOutcome

---------------------------------------------------------------------------
(* Specifications *)

Login == \E s \in Sessions, email \in Emails, password \in Passwords :
            login_page(s, email, password)
Logout == \E s \in Sessions : logout(s)

\* Every handler run as one step, the runs one after another: one browser
\* session, to which any user logs in.
Serial == {1}

SerialLogin == \E s \in Serial, email \in Emails, password \in Passwords :
                  login_page(s, email, password)
SerialLogout == \E s \in Serial : logout(s)

Next ==
    \/ SerialLogin
    \/ SerialLogout
    \/ bootstrap
    \/ \E s \in Serial, email \in Emails, role \in Roles :
            Len(users) < MaxUsers /\ register_user(s, email, role, "pw", "pw")
    \/ \E s \in Serial, click \in AttendanceClicks : staff_attendance(s, click)
    \/ \E s \in Serial : client_service_request(s, "Plumber", "leaking tap")
    \/ \E s \in Serial, t \in 1..MaxTickets, selected_staff \in 0..MaxUsers :
            manager_service_tickets(s, t, selected_staff)
    \/ \E s \in Serial, t \in 1..MaxTickets : staff_assigned_tickets(s, t)

Spec == Init /\ [][Next]_vars

\* Attendance alone, every run as one step, over the days of the clock.
NextSerialAttendance ==
    \/ SerialLogin
    \/ SerialLogout
    \/ Tick
    \/ \E s \in Serial, click \in AttendanceClicks : staff_attendance(s, click)

SpecSerialAttendance == Init /\ [][NextSerialAttendance]_vars

\* Attendance, every run as one step, and the report over the days of the clock.
NextReport ==
    \/ SerialLogin
    \/ SerialLogout
    \/ Tick
    \/ \E s \in Serial, click \in AttendanceClicks : staff_attendance(s, click)
    \/ \E s \in Serial, start_date \in Dates, end_date \in Dates :
            attendance_report(s, start_date, end_date)

SpecReport == Init /\ [][NextReport]_vars

\* Every page of the staff, client and manager menus, every run as one step,
\* over the days of the clock.
NextPages ==
    \/ SerialLogin
    \/ SerialLogout
    \/ Tick
    \/ \E s \in Serial, click \in AttendanceClicks : staff_attendance(s, click)
    \/ \E s \in Serial : client_service_request(s, "Plumber", "leaking tap")
    \/ \E s \in Serial : client_view_tickets(s)
    \/ \E s \in Serial, t \in 1..MaxTickets, selected_staff \in 0..MaxUsers :
            manager_service_tickets(s, t, selected_staff)
    \/ \E s \in Serial, t \in 1..MaxTickets : staff_assigned_tickets(s, t)
    \/ \E s \in Serial, start_date \in Dates, end_date \in Dates :
            attendance_report(s, start_date, end_date)

SpecPages == Init /\ [][NextPages]_vars

\* Attendance with the lookup and the commit of concurrent sessions interleaved.
NextAttendance ==
    \/ Login
    \/ Logout
    \/ Tick
    \/ \E s \in Sessions, click \in AttendanceClicks : staff_attendance_query(s, click)
    \/ \E s \in Sessions : staff_attendance_commit(s)

SpecAttendance == Init /\ [][NextAttendance]_vars

\* Tickets with the query and the commit of concurrent sessions interleaved.
NextTickets ==
    \/ Login
    \/ Logout
    \/ \E s \in Sessions : client_service_request(s, "Plumber", "leaking tap")
    \/ \E s \in Sessions, t \in 1..MaxTickets, selected_staff \in 0..MaxUsers :
            manager_service_tickets_query(s, t, selected_staff)
    \/ \E s \in Sessions : manager_service_tickets_commit(s)
    \/ \E s \in Sessions, t \in 1..MaxTickets : staff_assigned_tickets_query(s, t)
    \/ \E s \in Sessions : staff_assigned_tickets_commit(s)

SpecTickets == Init /\ [][NextTickets]_vars

\* The service request form with every input it accepts.
NextRaise ==
    \/ Login
    \/ Logout
    \/ \E s \in Sessions, service_type \in ServiceTypes, description \in Descriptions :
            client_service_request(s, service_type, description)

SpecRaise == Init /\ [][NextRaise]_vars

\* Tickets of an installation that starts without staff: the admin registers
\* further users while tickets are raised, assigned and completed.
NextStaffing ==
    \/ Login
    \/ Logout
    \/ \E s \in Sessions, email \in Emails, role \in Roles :
            Len(users) < MaxAccounts /\ register_user(s, email, role, "pw", "pw")
    \/ \E s \in Sessions : client_service_request(s, "Plumber", "leaking tap")
    \/ \E s \in Sessions, t \in 1..MaxTickets, selected_staff \in 0..MaxUsers :
            manager_service_tickets_query(s, t, selected_staff)
    \/ \E s \in Sessions : manager_service_tickets_commit(s)
    \/ \E s \in Sessions, t \in 1..MaxTickets : staff_assigned_tickets_query(s, t)
    \/ \E s \in Sessions : staff_assigned_tickets_commit(s)

SpecStaffing == InitWithoutStaff /\ [][NextStaffing]_vars

\* Accounts from the empty database: the bootstrap script, run any number of
\* times, and the registration form of concurrent admin sessions.
NextAccounts ==
    \/ Len(users) < MaxAccounts /\ bootstrap
    \/ Login
    \/ Logout
    \/ \E s \in Sessions, email \in Emails, role \in Roles,
          password \in Passwords, confirm_password \in Passwords :
            /\ Len(users) + Cardinality({r \in Sessions : run[r].at = "register"})
                    < MaxAccounts
            /\ register_user_query(s, email, role, password, confirm_password)
    \/ \E s \in Sessions : register_user_commit(s)

SpecAccounts == InitFresh /\ [][NextAccounts]_vars

---------------------------------------------------------------------------
(* Properties *)

\* The step handles a fresh click of `click` by session s (its query step).
IsClick(s, click) ==
    /\ last' # last
    /\ last'.session = s
    /\ last'.click = click
    /\ last'.result \in {"dropped", "clicked"}

RecordsOf(user_id, d) ==
    {i \in 1..Len(attendance) :
        attendance[i].user_id = user_id /\ attendance[i].date = d}

\* C1: when every run executes its lookup and its write as one step, the
\* attendance table holds at most one row for every (user, date) pair.
AtMostOneRecordPerUserDate ==
    \A i, j \in 1..Len(attendance) :
        (attendance[i].user_id = attendance[j].user_id
            /\ attendance[i].date = attendance[j].date) => i = j

\* Two rows of one user, on two dates, the first of them closed.
AtMostOneRecordPerUserDate_witness ==
    /\ Len(attendance) = 2
    /\ attendance[1].user_id = attendance[2].user_id
    /\ attendance[1].date # attendance[2].date
    /\ attendance[1].check_out # Null

\* C2: every change of a ticket's status is Pending -> In Progress or
\* In Progress -> Completed, also when sessions write after a stale read.
TicketStatusMonotonic ==
    [][\A t \in 1..Len(tickets) :
          tickets'[t].status # tickets[t].status =>
              <<tickets[t].status, tickets'[t].status>> \in
                  {<<"Pending", "In Progress">>, <<"In Progress", "Completed">>}]_vars

\* C3: in every state, a ticket has an assignee if and only if its status is
\* In Progress or Completed.
AssignedIffStarted ==
    \A t \in 1..Len(tickets) :
        (tickets[t].assigned_to # Null)
            <=> (tickets[t].status \in {"In Progress", "Completed"})

\* A ticket that went through assignment and completion.
AssignedIffStarted_witness ==
    /\ Len(tickets) >= 1
    /\ tickets[1].status = "Completed"
    /\ tickets[1].assigned_to \in staff_list
    /\ last.result = "committed"

\* C4: a ticket's status becomes Completed only by the write of a session
\* whose user is, at the moment of the write, the ticket's assigned_to, the
\* ticket then being In Progress.
CompleteOnlyByAssigneeInProgress ==
    [][\A t \in 1..Len(tickets) :
          (tickets'[t].status = "Completed" /\ tickets[t].status # "Completed") =>
              \E s \in Sessions :
                  /\ run[s].at = "complete" /\ run[s].ticket = t
                  /\ run'[s].at = "idle"
                  /\ tickets[t].status = "In Progress"
                  /\ tickets[t].assigned_to = session[s].user.user_id]_vars

\* C5: a click on assign for a ticket that the run reads as In Progress or
\* Completed is dropped: the run ends without a write and the tickets are
\* left as they were.
AssignOnNonPendingFails ==
    [][\A s \in Sessions, t \in 1..Len(tickets) :
          (IsClick(s, "Assign Ticket") /\ last'.ticket = t
                /\ tickets[t].status # "Pending") =>
              (last'.result = "dropped" /\ tickets' = tickets /\ run'[s] = Idle)]_vars

\* An assign click on a ticket that is In Progress has just been dropped.
AssignOnNonPendingFails_witness ==
    /\ last.click = "Assign Ticket"
    /\ last.result = "dropped"
    /\ last.ticket \in 1..Len(tickets)
    /\ tickets[last.ticket].status = "In Progress"
    /\ tickets[last.ticket].assigned_to \in staff_list

\* C6: a Check In click of a user who has a record for today, open or closed,
\* is dropped: no record is created and the table is left as it was.
CheckInOnExistingRecordFails ==
    [][\A s \in Sessions :
          (IsClick(s, "Check In")
                /\ attendance_record(session[s].user.user_id, Today) # Null) =>
              (last'.result = "dropped" /\ attendance' = attendance
                    /\ run'[s] = Idle)]_vars

\* A Check In click has just been dropped for a user whose record for today
\* is closed.
CheckInOnExistingRecordFails_witness ==
    /\ last.click = "Check In"
    /\ last.result = "dropped"
    /\ last.session \in Sessions
    /\ LET rec == attendance_record(session[last.session].user.user_id, Today)
       IN  rec # Null /\ attendance[rec].check_out # Null

\* C7: a Check Out click is dropped, the table unchanged, when the user has no
\* record for today or that record has check_out set; it reaches the write
\* only on an open record, and the write sets check_out of that record and
\* changes nothing else.
CheckOutOnlyOnOpenRecord ==
    [][\A s \in Sessions :
          LET rec == attendance_record(session[s].user.user_id, Today)
          IN  /\ (IsClick(s, "Check Out")
                    /\ (rec = Null \/ attendance[rec].check_out # Null)) =>
                    (last'.result = "dropped" /\ attendance' = attendance
                        /\ run'[s] = Idle)
              /\ (IsClick(s, "Check Out") /\ last'.result = "clicked") =>
                    (rec # Null /\ attendance[rec].check_out = Null
                        /\ run'[s].at = "checkout" /\ run'[s].rec = rec)
              /\ (run[s].at = "checkout" /\ run'[s].at = "idle") =>
                    /\ Len(attendance') = Len(attendance)
                    /\ attendance'[run[s].rec].check_out # Null
                    /\ attendance'[run[s].rec].check_in =
                            attendance[run[s].rec].check_in
                    /\ \A i \in 1..Len(attendance) :
                          i # run[s].rec => attendance'[i] = attendance[i]]_vars

\* A Check Out click has just been dropped for a user whose record for today
\* was closed by an earlier Check Out.
CheckOutOnlyOnOpenRecord_witness ==
    /\ last.click = "Check Out"
    /\ last.result = "dropped"
    /\ last.session \in Sessions
    /\ LET rec == attendance_record(session[last.session].user.user_id, Today)
       IN  rec # Null /\ attendance[rec].check_out # Null

\* C8: two sessions of one user checking in concurrently create exactly one
\* record for that (user, date).
ConcurrentCheckInsSerialize ==
    \A user_id \in 1..Len(users), d \in 1..(MaxClock \div DayLen + 1) :
        Cardinality(RecordsOf(user_id, d)) <= 1

\* C9: of two concurrent assignments of one Pending ticket exactly one takes
\* effect: assigned_to, once set, is never overwritten.
AssignmentNeverOverwritten ==
    [][\A t \in 1..Len(tickets) :
          tickets[t].assigned_to # Null =>
              tickets'[t].assigned_to = tickets[t].assigned_to]_vars

\* Some logged-in session has this role, as stored for its user.
ActingRole(role) ==
    \E s \in Sessions :
        /\ session[s].logged_in
        /\ session[s].user.role = role
        /\ session[s].user.user_id \in 1..Len(users)
        /\ users[session[s].user.user_id].role = role

\* Some logged-in session of this role belongs to this user.
ActingUser(role, user_id) ==
    \E s \in Sessions :
        /\ session[s].logged_in
        /\ session[s].user.role = role
        /\ session[s].user.user_id = user_id

\* C10: a user row is added only by an admin session, an attendance row is
\* added or changed only by a staff session and is that user's own, a ticket
\* is raised only by a client session under its own id, assigned only by an
\* admin or manager session and completed only by a staff session; so every
\* attendance row belongs to a staff user and every ticket to a client.
AccessPolicyEnforced ==
    [][/\ users' # users => ActingRole("admin")
       /\ \A i \in 1..Len(attendance') :
            (i > Len(attendance) \/ attendance'[i] # attendance[i]) =>
                ActingUser("staff", attendance'[i].user_id)
       /\ \A t \in 1..Len(tickets') :
            /\ t > Len(tickets) => ActingUser("client", tickets'[t].client_id)
            /\ (t <= Len(tickets)
                    /\ tickets'[t].assigned_to # tickets[t].assigned_to) =>
                  (ActingRole("admin") \/ ActingRole("manager"))
            /\ (t <= Len(tickets) /\ tickets'[t].status = "Completed"
                    /\ tickets[t].status # "Completed") => ActingRole("staff")
       /\ \A i \in 1..Len(attendance') :
            users'[attendance'[i].user_id].role = "staff"
       /\ \A t \in 1..Len(tickets') :
            users'[tickets'[t].client_id].role = "client"]_vars

\* A registered user beyond the deployed ones, an attendance row and a
\* completed ticket.
AccessPolicyEnforced_witness ==
    /\ Len(users) > Len(DeployedUsers)
    /\ Len(attendance) >= 1
    /\ Len(tickets) >= 1
    /\ tickets[1].status = "Completed"

\* C11: a stored attendance record only goes Open -> Closed: no step removes
\* a record or changes its user, date or check_in, and a check_out that is
\* set is never changed again.
AttendanceRecordLifecycle ==
    [][/\ Len(attendance') >= Len(attendance)
       /\ \A i \in 1..Len(attendance) :
            /\ attendance'[i].user_id = attendance[i].user_id
            /\ attendance'[i].date = attendance[i].date
            /\ attendance'[i].check_in = attendance[i].check_in
            /\ attendance[i].check_out # Null =>
                  attendance'[i].check_out = attendance[i].check_out]_vars

\* C12: every assignee stored in a ticket is an existing user of role staff;
\* an assign click reaches the write only with a staff user selected, and
\* while no staff user exists the click is dropped and the tickets are left
\* as they were, Pending and unassigned.
AssigneeIsStaff ==
    [][/\ \A t \in 1..Len(tickets') :
            tickets'[t].assigned_to # Null =>
                /\ tickets'[t].assigned_to \in 1..Len(users')
                /\ users'[tickets'[t].assigned_to].role = "staff"
       /\ \A s \in Sessions :
            IsClick(s, "Assign Ticket") =>
                /\ last'.result = "clicked" =>
                      /\ run'[s].staff \in 1..Len(users)
                      /\ users[run'[s].staff].role = "staff"
                /\ (\A i \in 1..Len(users) : users[i].role # "staff") =>
                      /\ last'.result = "dropped"
                      /\ tickets' = tickets
                      /\ run'[s] = Idle]_vars

\* An assign click on a Pending ticket has just been dropped because no
\* staff user exists.
AssigneeIsStaff_witness ==
    /\ last.click = "Assign Ticket"
    /\ last.result = "dropped"
    /\ \A i \in 1..Len(users) : users[i].role # "staff"
    /\ last.ticket \in 1..Len(tickets)
    /\ tickets[last.ticket].status = "Pending"
    /\ tickets[last.ticket].assigned_to = Null

\* C13: no two users share an email; a step that changes the users table
\* appends one user whose email no user had; a registration form submitted
\* with a present email is dropped, and create_user called with an email
\* that is present (by the form after a concurrent registration, by the
\* bootstrap script run again) raises and adds nothing.
EmailsAreUnique ==
    [][/\ \A i, j \in 1..Len(users') : users'[i].email = users'[j].email => i = j
       /\ users' # users =>
            /\ Len(users') = Len(users) + 1
            /\ SubSeq(users', 1, Len(users)) = users
            /\ \A i \in 1..Len(users) : users[i].email # users'[Len(users')].email
       /\ \A s \in Sessions :
            /\ (IsClick(s, "Register") /\ last'.result = "clicked") =>
                    \A i \in 1..Len(users) : users[i].email # run'[s].user_data.email
            /\ (run[s].at = "register" /\ run'[s].at = "idle"
                    /\ \E i \in 1..Len(users) :
                          users[i].email = run[s].user_data.email) =>
                    (users' = users /\ last'.result = "raised")]_vars

\* create_user has just raised for a form whose email another admin session
\* registered after this session's lookup.
EmailsAreUnique_witness ==
    /\ last.click = "Register"
    /\ last.result = "raised"
    /\ Len(users) >= 2

\* C14: authenticate_user returns a user only when that user has the given
\* email and the password verifies against the user's stored hash, and it
\* returns None in every other case, for an unknown email as for a wrong
\* password; a session becomes logged in only as the user some
\* authenticate_user call returned.
AuthenticateFailsClosed ==
    [][/\ \A email \in Emails, password \in Passwords :
            LET user == authenticate_user(email, password)
                verified == {i \in 1..Len(users) :
                                /\ users[i].email = email
                                /\ users[i].password_hash = hash_password(password)}
            IN  /\ user # Null => user \in verified
                /\ verified = {} => user = Null
                /\ user \in verified \cup {Null}
       /\ \A s \in Sessions :
            (session'[s].logged_in /\ ~session[s].logged_in) =>
                \E email \in Emails, password \in Passwords :
                    /\ authenticate_user(email, password) # Null
                    /\ session'[s].user.user_id = authenticate_user(email, password)]_vars

\* A session is logged in while some stored user is refused with a wrong
\* password and some email is unknown, both with the same result.
AuthenticateFailsClosed_witness ==
    /\ \E s \in Sessions : session[s].logged_in
    /\ \E email \in Emails, password \in Passwords :
            get_user_by_email(email) # Null /\ authenticate_user(email, password) = Null
    /\ \E email \in Emails :
            /\ get_user_by_email(email) = Null
            /\ \A password \in Passwords : authenticate_user(email, password) = Null

\* C20: a session is logged in exactly when its user is set, and that user's
\* id and role are those of a stored user; the session state changes only by
\* a login as the user authenticate_user returned or by a logout that resets
\* it to logged out with no user; while no session is logged in, no user,
\* attendance record or ticket is created or changed.
SessionStateConsistent ==
    [][/\ \A s \in Sessions :
            /\ session'[s].logged_in <=> session'[s].user # NoUser
            /\ session'[s].logged_in =>
                  /\ session'[s].user.user_id \in 1..Len(users')
                  /\ users'[session'[s].user.user_id].role = session'[s].user.role
            /\ session'[s] # session[s] =>
                  \/ session[s].logged_in /\ session'[s] = LoggedOut
                  \/ /\ ~session[s].logged_in
                     /\ \E email \in Emails, password \in Passwords :
                          LET user == authenticate_user(email, password)
                          IN  /\ user # Null
                              /\ session'[s] =
                                    [logged_in |-> TRUE,
                                     user |-> [user_id |-> user,
                                               role |-> users[user].role]]
       /\ (\A s \in Sessions : ~session[s].logged_in) =>
            (users' = users /\ attendance' = attendance /\ tickets' = tickets)]_vars

\* Everybody has logged out again after a registration, a check-in and a
\* raised ticket.
SessionStateConsistent_witness ==
    /\ \A s \in Sessions : session[s] = LoggedOut
    /\ Len(users) > Len(DeployedUsers)
    /\ Len(attendance) >= 1
    /\ Len(tickets) >= 1

\* C15: every stored ticket has a service type of the fixed set and a
\* description that is not empty.
TicketsAreValid ==
    \A t \in 1..Len(tickets) :
        /\ tickets[t].service_type \in ServiceTypes
        /\ tickets[t].description # ""

\* The step is a run of the attendance report.
IsReport == last' # last /\ last'.click = "Generate Report"

\* C16: a report returns each attendance record whose date lies between the
\* start date and the end date, both included, exactly once, and no other; for
\* equal dates these are the records of that day, and for a start date after
\* the end date, or when no record matches, the result is empty.
ReportSelectsRange ==
    [][IsReport =>
          LET got == {last'.records[k] : k \in 1..Len(last'.records)}
              start_date == last'.start_date
              end_date == last'.end_date
          IN  /\ got = {i \in 1..Len(attendance) :
                            start_date <= attendance[i].date
                                /\ attendance[i].date <= end_date}
              /\ Cardinality(got) = Len(last'.records)
              /\ start_date = end_date =>
                    got = {i \in 1..Len(attendance) : attendance[i].date = start_date}
              /\ start_date > end_date => last'.records = <<>>
              /\ (\A i \in 1..Len(attendance) :
                        attendance[i].date < start_date \/ attendance[i].date > end_date)
                    => (last'.records = <<>> /\ last'.result = "no records")]_vars

\* A report for one day has returned that day's record and left out the
\* record of the other day.
ReportSelectsRange_witness ==
    /\ last.click = "Generate Report"
    /\ last.start_date = last.end_date
    /\ Len(last.records) = 1
    /\ Len(attendance) = 2
    /\ attendance[last.records[1]].date = last.start_date
    /\ \E i \in 1..Len(attendance) : attendance[i].date # last.start_date

\* C17: the records of a report come ordered by date and, within one date, by
\* user id.
ReportIsOrdered ==
    [][IsReport =>
          \A k, l \in 1..Len(last'.records) :
              k < l =>
                  LET a == attendance[last'.records[k]]
                      b == attendance[last'.records[l]]
                  IN  \/ a.date < b.date
                      \/ a.date = b.date /\ a.user_id <= b.user_id]_vars

\* The step is a run of a page that only lists rows.
IsListing == last' # last /\ last'.click \in {"Generate Report", "My Service Tickets"}

LeftOpen(i) ==
    /\ attendance[i].date < Today
    /\ attendance[i].check_out = Null
    /\ \A s \in Sessions : ~(run[s].at = "checkout" /\ run[s].rec = i)

\* C19: a record left open on its date is never closed afterwards: a Check
\* Out click on a later date looks up the record of that date only, so no
\* step changes the record, or starts a run that will, and it is open in
\* every later state.
OpenRecordIsNeverClosedLater ==
    [][\A i \in 1..Len(attendance) :
          LeftOpen(i) =>
              /\ attendance'[i] = attendance[i]
              /\ LeftOpen(i)'
              /\ \A s \in Sessions :
                    (IsClick(s, "Check Out") /\ last'.result = "clicked") =>
                        /\ run'[s].rec # i
                        /\ attendance[run'[s].rec].date = Today]_vars

\* The user whose record of the first day was left open has checked in and
\* out on the second day; the first day's record is still open.
OpenRecordIsNeverClosedLater_witness ==
    /\ Len(attendance) = 2
    /\ LeftOpen(1)
    /\ attendance[2].user_id = attendance[1].user_id
    /\ attendance[2].date = Today
    /\ attendance[2].check_out # Null
    /\ last.click = "Check Out"
    /\ last.result = "committed"

====
